---- MODULE Spec2Model ----
(***************************************************************************)
(* Model of the two camera test scripts of json0130/Emotion_understanding: *)
(*   webcam-test.py            run_webcam: probe indices 0..4 with two     *)
(*                             backends, select, stream, clean up          *)
(*   realsense-camera-test.py  main: menu "1" -> run_realsense,            *)
(*                             "2" -> run_webcam (index 0, no probing)     *)
(* One state machine; `script` says which program is being run.  The       *)
(* camera SDK, cv2 and the user are the environment: their answers are     *)
(* drawn nondeterministically where the code asks for them.                *)
(***************************************************************************)
EXTENDS Integers, Sequences, FiniteSets, TLC

VARIABLES
  script,            \* which program runs: WT (webcam-test.py) or RS
  pc,                \* position of the single thread
  canAny, canV4l,    \* environment: does index i open under CAP_ANY / CAP_V4L2
  quitHeld,          \* environment: the user holds a terminating key from now on
  menu,              \* RS main: the string read by input() ("" before it is read)
  i,                 \* WT: loop variable of the probing loop
  available_indices, \* WT: list of indices found
  v4lTried,          \* history: indices for which the CAP_V4L2 open was attempted
  openHandles,       \* VideoCapture objects currently open: <<variable, index>>
  prompted,          \* WT: input("Enter camera index: ") has been called
  choice_str,        \* WT: the string the user typed (NoInput before)
  found_cam_index,   \* WT: index chosen for streaming (-1 = none)
  streamOpens,       \* sequence of indices a streaming open was attempted on
  pipelineStarted,   \* RS: pipeline.start succeeded and pipeline.stop not yet run
  acq,               \* outcome of this iteration's acquisition
  displayed,         \* a frame was shown in this iteration
  everRead,          \* some acquisition call was made
  everShown,         \* some frame was shown
  exc,               \* an exception is propagating out of the function
  releases,          \* number of device releases of the stream session
  destroys,          \* number of cv2.destroyAllWindows() calls
  printed            \* error reports printed so far

vars == <<script, pc, canAny, canV4l, quitHeld, menu, i, available_indices,
          v4lTried, openHandles, prompted, choice_str, found_cam_index,
          streamOpens, pipelineStarted, acq, displayed, everRead, everShown,
          exc, releases, destroys, printed>>

\* ------------------------------------------------------------- constants

\* range(5): the candidate indices are 0..NumIndices-1
NumIndices == 5
\* ord('q')
OrdQ == 113
\* the ESC key code
EscKey == 27
\* the 0xFF mask, as a modulus: key & 0xFF = key % 256 (also for key = -1)
ByteMod == 256

\* Longest line the user types at the index prompt
MaxInputLen == 2

Indices == 0 .. (NumIndices - 1)

\* characters the user may type (no tab, no underscore, not every digit)
Digits == {"0", "1", "3"}
Chars == Digits \cup {"-", "+", " ", "x"}
InputStrings == UNION {[1..n -> Chars] : n \in 0..MaxInputLen}
NoInput == <<"<none>">>
\* the result of int(): a value, or ValueError raised
Parsed(n) == [ok |-> TRUE, val |-> n]
ValueError == [ok |-> FALSE, val |-> 0]

\* key codes cv2.waitKey may return: -1 (no key), ESC, q, q and ESC with a
\* modifier flag above the low byte, and another key
Keys == {-1, 27, 113, 369, 283, 97}
\* the terminating keys: low byte equal to 'q', or key code 27
TerminatingKeys == {27, 113, 369}

\* ------------------------------------------------------- pure functions

DigitVal(c) == CASE c = "0" -> 0 [] c = "1" -> 1 [] c = "3" -> 3 [] OTHER -> 0

RECURSIVE LStrip(_)
LStrip(s) == IF s # <<>> /\ Head(s) = " " THEN LStrip(Tail(s)) ELSE s

RECURSIVE RStrip(_)
RStrip(s) ==
  IF s # <<>> /\ s[Len(s)] = " " THEN RStrip(SubSeq(s, 1, Len(s) - 1)) ELSE s

RECURSIVE DigitsValue(_)
DigitsValue(d) ==
  IF d = <<>> THEN 0
  ELSE 10 * DigitsValue(SubSeq(d, 1, Len(d) - 1)) + DigitVal(d[Len(d)])

\* int(choice_str): surrounding whitespace is stripped, one optional sign,
\* then one or more decimal digits; anything else raises ValueError
PyInt(s) ==
  LET t == RStrip(LStrip(s))
      neg == t # <<>> /\ Head(t) = "-"
      d == IF t # <<>> /\ Head(t) \in {"-", "+"} THEN Tail(t) ELSE t
  IN IF d # <<>> /\ \A k \in 1..Len(d) : d[k] \in Digits
     THEN Parsed(IF neg THEN 0 - DigitsValue(d) ELSE DigitsValue(d))
     ELSE ValueError

\* set(available_indices)
SetOf(seq) == {seq[k] : k \in 1..Len(seq)}

\* a range check in place of the membership test
ChoiceAccepted_RangeOnly(n, avail) == n \in Indices

\* choice_int in unique_indices
ChoiceAccepted(n, avail) == n \in SetOf(avail)

\* key & 0xFF == ord('q') or key == 27
IsQuitKey(key) == (key % ByteMod) = OrdQ \/ key = EscKey

\* what cv2.waitKey(1) can return now
PolledKeys == IF quitHeld THEN TerminatingKeys ELSE Keys

WT == "webcam-test.py"
RS == "realsense-camera-test.py"

\* ------------------------------------------------------------------ Init

Init ==
  /\ script \in {WT, RS}
  /\ pc = IF script = WT THEN "probe_any" ELSE "main"
  /\ canAny \in [Indices -> BOOLEAN]
  /\ canV4l \in [Indices -> BOOLEAN]
  /\ quitHeld = FALSE
  /\ menu = ""
  /\ i = 0
  /\ available_indices = <<>>
  /\ v4lTried = {}
  /\ openHandles = {}
  /\ prompted = FALSE
  /\ choice_str = NoInput
  /\ found_cam_index = -1
  /\ streamOpens = <<>>
  /\ pipelineStarted = FALSE
  /\ acq = "none"
  /\ displayed = FALSE
  /\ everRead = FALSE
  /\ everShown = FALSE
  /\ exc = FALSE
  /\ releases = 0
  /\ destroys = 0
  /\ printed = {}

envVars == <<script, canAny, canV4l>>
probeVars == <<i, available_indices, v4lTried>>
selectVars == <<prompted, choice_str, found_cam_index>>
frameVars == <<acq, displayed, everRead, everShown>>
closeVars == <<releases, destroys>>

\* positions inside the "while True" loops (the Streaming state)
StreamingPcs == {"wc_read", "wc_show", "wc_waitkey",
                 "m2_read", "m2_show", "m2_waitkey",
                 "rs_wait", "rs_validate", "rs_show", "rs_waitkey"}

\* the user starts holding a terminating key
HoldQuit ==
  /\ ~quitHeld
  /\ pc \in StreamingPcs
  /\ quitHeld' = TRUE
  /\ UNCHANGED <<envVars, pc, menu, probeVars, openHandles, selectVars,
                 streamOpens, pipelineStarted, frameVars, exc, closeVars, printed>>

\* ------------------------------------------- webcam-test.py: the prober

\* for i in range(5): advance to the next index or leave the loop
NextIndexPc(n) == IF n + 1 < NumIndices THEN "probe_any" ELSE "select"

\* cap_test_any = cv2.VideoCapture(i, cv2.CAP_ANY); if cap_test_any.isOpened()
ProbeAny ==
  /\ pc = "probe_any"
  /\ IF canAny[i]
     THEN /\ openHandles' = openHandles \cup {<<"cap_test_any", i>>}
          /\ pc' = "probe_any_ok"
     ELSE /\ openHandles' = openHandles
          /\ pc' = "probe_v4l"
  /\ UNCHANGED <<envVars, quitHeld, menu, probeVars, selectVars, streamOpens,
                 pipelineStarted, frameVars, exc, closeVars, printed>>

\* the probe handle is recorded but never released
ProbeAnyRecord_NoRelease ==
  /\ pc = "probe_any_ok"
  /\ available_indices' = Append(available_indices, i)
  /\ i' = i + 1
  /\ pc' = NextIndexPc(i)
  /\ UNCHANGED <<envVars, quitHeld, menu, v4lTried, openHandles, selectVars,
                 streamOpens, pipelineStarted, frameVars, exc, closeVars, printed>>

\* available_indices.append(i); cap_test_any.release()
ProbeAnyRecord ==
  /\ pc = "probe_any_ok"
  /\ available_indices' = Append(available_indices, i)
  /\ openHandles' = openHandles \ {<<"cap_test_any", i>>}
  /\ i' = i + 1
  /\ pc' = NextIndexPc(i)
  /\ UNCHANGED <<envVars, quitHeld, menu, v4lTried, selectVars, streamOpens,
                 pipelineStarted, frameVars, exc, closeVars, printed>>

\* cap_test_v4l = cv2.VideoCapture(i, cv2.CAP_V4L2); if cap_test_v4l.isOpened()
ProbeV4l ==
  /\ pc = "probe_v4l"
  /\ v4lTried' = v4lTried \cup {i}
  /\ IF canV4l[i]
     THEN /\ openHandles' = openHandles \cup {<<"cap_test_v4l", i>>}
          /\ pc' = "probe_v4l_ok"
          /\ i' = i
     ELSE /\ openHandles' = openHandles
          /\ pc' = NextIndexPc(i)
          /\ i' = i + 1
  /\ UNCHANGED <<envVars, quitHeld, menu, available_indices, selectVars,
                 streamOpens, pipelineStarted, frameVars, exc, closeVars, printed>>

\* the index found by the second backend is released but not recorded
ProbeV4lRecord_NoAppend ==
  /\ pc = "probe_v4l_ok"
  /\ openHandles' = openHandles \ {<<"cap_test_v4l", i>>}
  /\ i' = i + 1
  /\ pc' = NextIndexPc(i)
  /\ UNCHANGED <<envVars, quitHeld, menu, available_indices, v4lTried,
                 selectVars, streamOpens, pipelineStarted, frameVars, exc,
                 closeVars, printed>>

\* available_indices.append(i); cap_test_v4l.release()
ProbeV4lRecord ==
  /\ pc = "probe_v4l_ok"
  /\ available_indices' = Append(available_indices, i)
  /\ openHandles' = openHandles \ {<<"cap_test_v4l", i>>}
  /\ i' = i + 1
  /\ pc' = NextIndexPc(i)
  /\ UNCHANGED <<envVars, quitHeld, menu, v4lTried, selectVars, streamOpens,
                 pipelineStarted, frameVars, exc, closeVars, printed>>

\* ------------------------------------------ webcam-test.py: the selector

\* the error is printed but the return is missing
SelectNone_FallThrough ==
  /\ pc = "select"
  /\ Len(available_indices) = 0
  /\ printed' = printed \cup {"no-device-found"}
  /\ pc' = "start_stream"
  /\ UNCHANGED <<envVars, quitHeld, menu, probeVars, openHandles, selectVars,
                 streamOpens, pipelineStarted, frameVars, exc, closeVars>>

\* if len(available_indices) == 0: print the error and return
SelectNone ==
  /\ pc = "select"
  /\ Len(available_indices) = 0
  /\ printed' = printed \cup {"no-device-found"}
  /\ pc' = "done"
  /\ UNCHANGED <<envVars, quitHeld, menu, probeVars, openHandles, selectVars,
                 streamOpens, pipelineStarted, frameVars, exc, closeVars>>

\* the sole camera is taken to be index 0
SelectSole_IndexZero ==
  /\ pc = "select"
  /\ Len(available_indices) = 1
  /\ found_cam_index' = 0
  /\ pc' = "start_stream"
  /\ UNCHANGED <<envVars, quitHeld, menu, probeVars, openHandles, prompted,
                 choice_str, streamOpens, pipelineStarted, frameVars, exc,
                 closeVars, printed>>

\* elif len(available_indices) == 1: found_cam_index = available_indices[0]
SelectSole ==
  /\ pc = "select"
  /\ Len(available_indices) = 1
  /\ found_cam_index' = available_indices[1]
  /\ pc' = "start_stream"
  /\ UNCHANGED <<envVars, quitHeld, menu, probeVars, openHandles, prompted,
                 choice_str, streamOpens, pipelineStarted, frameVars, exc,
                 closeVars, printed>>

\* else: choice_str = input(...); choice_int = int(choice_str);
\* membership test; "Invalid selection" / "Invalid input" and return
SelectPrompt ==
  /\ pc = "select"
  /\ Len(available_indices) > 1
  /\ prompted' = TRUE
  /\ \E s \in InputStrings :
       LET choice_int == PyInt(s) IN
       /\ choice_str' = s
       /\ IF choice_int.ok /\ ChoiceAccepted(choice_int.val, available_indices)
          THEN /\ found_cam_index' = choice_int.val
               /\ pc' = "start_stream"
               /\ printed' = printed
          ELSE /\ found_cam_index' = found_cam_index
               /\ pc' = "done"
               /\ printed' = printed \cup {"invalid-selection"}
  /\ UNCHANGED <<envVars, quitHeld, menu, probeVars, openHandles, streamOpens,
                 pipelineStarted, frameVars, exc, closeVars>>

\* input() itself fails (end of input, Ctrl-C): only ValueError is caught,
\* so the exception leaves run_webcam
SelectPromptAborted ==
  /\ pc = "select"
  /\ Len(available_indices) > 1
  /\ prompted' = TRUE
  /\ exc' = TRUE
  /\ pc' = "raised"
  /\ UNCHANGED <<envVars, quitHeld, menu, probeVars, openHandles, choice_str,
                 found_cam_index, streamOpens, pipelineStarted, frameVars,
                 closeVars, printed>>

\* ------------------------------------- webcam-test.py: the stream session

\* the open failure is printed but the return is missing
StartStream_NoReturn ==
  /\ pc = "start_stream"
  /\ streamOpens' = Append(streamOpens, found_cam_index)
  /\ \E ok \in BOOLEAN :
       IF ok
       THEN /\ openHandles' = openHandles \cup {<<"cap", found_cam_index>>}
            /\ pc' = "wc_read"
            /\ printed' = printed
       ELSE /\ openHandles' = openHandles
            /\ pc' = "wc_read"
            /\ printed' = printed \cup {"device-unavailable"}
  /\ UNCHANGED <<envVars, quitHeld, menu, probeVars, selectVars,
                 pipelineStarted, frameVars, exc, closeVars>>

\* cap = cv2.VideoCapture(found_cam_index); if not cap.isOpened(): print, return
StartStream ==
  /\ pc = "start_stream"
  /\ streamOpens' = Append(streamOpens, found_cam_index)
  /\ \E ok \in BOOLEAN :
       IF ok
       THEN /\ openHandles' = openHandles \cup {<<"cap", found_cam_index>>}
            /\ pc' = "wc_read"
            /\ printed' = printed
       ELSE /\ openHandles' = openHandles
            /\ pc' = "done"
            /\ printed' = printed \cup {"device-unavailable"}
  /\ UNCHANGED <<envVars, quitHeld, menu, probeVars, selectVars,
                 pipelineStarted, frameVars, exc, closeVars>>

\* ret, frame = cap.read(); if not ret: print, break
WcRead ==
  /\ pc = "wc_read"
  /\ everRead' = TRUE
  /\ displayed' = FALSE
  /\ \E r \in {"ok", "fail", "raised"} :
       /\ acq' = r
       /\ exc' = (r = "raised")
       /\ pc' = IF r = "ok" THEN "wc_show" ELSE "wc_finally"
       /\ printed' = IF r = "fail" THEN printed \cup {"stream-end"} ELSE printed
  /\ UNCHANGED <<envVars, quitHeld, menu, probeVars, openHandles, selectVars,
                 streamOpens, pipelineStarted, everShown, closeVars>>

\* cv2.imshow('Normal Webcam', frame)
WcShow ==
  /\ pc = "wc_show"
  /\ \E raised \in BOOLEAN :
       /\ exc' = raised
       /\ displayed' = ~raised
       /\ everShown' = (everShown \/ ~raised)
       /\ pc' = IF raised THEN "wc_finally" ELSE "wc_waitkey"
  /\ UNCHANGED <<envVars, quitHeld, menu, probeVars, openHandles, selectVars,
                 streamOpens, pipelineStarted, acq, everRead, closeVars, printed>>

\* key = cv2.waitKey(1); if key & 0xFF == ord('q') or key == 27: break
WcWaitKey ==
  /\ pc = "wc_waitkey"
  /\ \/ \E key \in PolledKeys :
          /\ pc' = IF IsQuitKey(key) THEN "wc_finally" ELSE "wc_read"
          /\ exc' = FALSE
     \/ /\ pc' = "wc_finally"
        /\ exc' = TRUE
  /\ UNCHANGED <<envVars, quitHeld, menu, probeVars, openHandles, selectVars,
                 streamOpens, pipelineStarted, frameVars, closeVars, printed>>

\* finally: cap.release(); cv2.destroyAllWindows()
WcFinally ==
  /\ pc = "wc_finally"
  /\ openHandles' = openHandles \ {<<"cap", found_cam_index>>}
  /\ releases' = releases + 1
  /\ destroys' = destroys + 1
  /\ pc' = IF exc THEN "raised" ELSE "done"
  /\ UNCHANGED <<envVars, quitHeld, menu, probeVars, selectVars, streamOpens,
                 pipelineStarted, frameVars, exc, printed>>

\* ------------------------------------- realsense-camera-test.py: main

\* choice = input("Enter choice (1 or 2): "); dispatch on '1' / '2' / other
Main ==
  /\ pc = "main"
  /\ \E choice \in {"1", "2", "3"} :
       /\ menu' = choice
       /\ pc' = CASE choice = "1" -> "rs_start"
                  [] choice = "2" -> "m2_open"
                  [] OTHER -> "done"
       /\ printed' = IF choice \in {"1", "2"} THEN printed
                     ELSE printed \cup {"invalid-choice"}
  /\ UNCHANGED <<envVars, quitHeld, probeVars, openHandles, selectVars,
                 streamOpens, pipelineStarted, frameVars, exc, closeVars>>

\* ---------------------------- realsense-camera-test.py: run_realsense

\* try: profile = pipeline.start(config)  except Exception: print, return
RsStart ==
  /\ pc = "rs_start"
  /\ streamOpens' = Append(streamOpens, 0)
  /\ \E ok \in BOOLEAN :
       /\ pipelineStarted' = ok
       /\ pc' = IF ok THEN "rs_wait" ELSE "done"
       /\ printed' = IF ok THEN printed ELSE printed \cup {"device-unavailable"}
  /\ UNCHANGED <<envVars, quitHeld, menu, probeVars, openHandles, selectVars,
                 frameVars, exc, closeVars>>

\* frames = pipeline.wait_for_frames() (raises when no frame arrives in
\* time); aligned_frames = align.process(frames); get_depth_frame(),
\* get_color_frame() (either may be empty)
RsWait ==
  /\ pc = "rs_wait"
  /\ everRead' = TRUE
  /\ displayed' = FALSE
  /\ \E r \in {"ok", "missing", "raised"} :
       /\ acq' = r
       /\ exc' = (r = "raised")
       /\ pc' = IF r = "raised" THEN "rs_finally" ELSE "rs_validate"
  /\ UNCHANGED <<envVars, quitHeld, menu, probeVars, openHandles, selectVars,
                 streamOpens, pipelineStarted, everShown, closeVars, printed>>

\* the validation is missing: an incomplete pair goes on to processing
RsValidate_NoSkip ==
  /\ pc = "rs_validate"
  /\ pc' = "rs_show"
  /\ UNCHANGED <<envVars, quitHeld, menu, probeVars, openHandles, selectVars,
                 streamOpens, pipelineStarted, frameVars, exc, closeVars, printed>>

\* if not depth_frame or not color_frame: continue
RsValidate ==
  /\ pc = "rs_validate"
  /\ pc' = IF acq = "missing" THEN "rs_wait" ELSE "rs_show"
  /\ UNCHANGED <<envVars, quitHeld, menu, probeVars, openHandles, selectVars,
                 streamOpens, pipelineStarted, frameVars, exc, closeVars, printed>>

\* colorize the depth image, np.hstack, cv2.namedWindow, cv2.imshow
RsShow ==
  /\ pc = "rs_show"
  /\ \E raised \in BOOLEAN :
       /\ exc' = raised
       /\ displayed' = ~raised
       /\ everShown' = (everShown \/ ~raised)
       /\ pc' = IF raised THEN "rs_finally" ELSE "rs_waitkey"
  /\ UNCHANGED <<envVars, quitHeld, menu, probeVars, openHandles, selectVars,
                 streamOpens, pipelineStarted, acq, everRead, closeVars, printed>>

\* key = cv2.waitKey(1); if key & 0xFF == ord('q') or key == 27: break
RsWaitKey ==
  /\ pc = "rs_waitkey"
  /\ \/ \E key \in PolledKeys :
          /\ pc' = IF IsQuitKey(key) THEN "rs_finally" ELSE "rs_wait"
          /\ exc' = FALSE
     \/ /\ pc' = "rs_finally"
        /\ exc' = TRUE
  /\ UNCHANGED <<envVars, quitHeld, menu, probeVars, openHandles, selectVars,
                 streamOpens, pipelineStarted, frameVars, closeVars, printed>>

\* finally: print("Stopping RealSense pipeline...") and nothing else; a
\* pending exception then leaves the function, skipping the lines after the
\* try statement
RsFinally ==
  /\ pc = "rs_finally"
  /\ pc' = IF exc THEN "raised" ELSE "rs_stop"
  /\ UNCHANGED <<envVars, quitHeld, menu, probeVars, openHandles, selectVars,
                 streamOpens, pipelineStarted, frameVars, exc, closeVars, printed>>

\* after the try statement: pipeline.stop(); cv2.destroyAllWindows()
RsStop ==
  /\ pc = "rs_stop"
  /\ pipelineStarted' = FALSE
  /\ releases' = releases + 1
  /\ destroys' = destroys + 1
  /\ pc' = "done"
  /\ UNCHANGED <<envVars, quitHeld, menu, probeVars, openHandles, selectVars,
                 streamOpens, frameVars, exc, printed>>

\* ------------------------------- realsense-camera-test.py: run_webcam

\* cap = cv2.VideoCapture(0); if not cap.isOpened(): print, return
M2Open ==
  /\ pc = "m2_open"
  /\ streamOpens' = Append(streamOpens, 0)
  /\ \E ok \in BOOLEAN :
       IF ok
       THEN /\ openHandles' = openHandles \cup {<<"cap", 0>>}
            /\ pc' = "m2_read"
            /\ printed' = printed
       ELSE /\ openHandles' = openHandles
            /\ pc' = "done"
            /\ printed' = printed \cup {"device-unavailable"}
  /\ UNCHANGED <<envVars, quitHeld, menu, probeVars, selectVars,
                 pipelineStarted, frameVars, exc, closeVars>>

\* ret, frame = cap.read(); if not ret: print, break
M2Read ==
  /\ pc = "m2_read"
  /\ everRead' = TRUE
  /\ displayed' = FALSE
  /\ \E r \in {"ok", "fail", "raised"} :
       /\ acq' = r
       /\ exc' = (r = "raised")
       /\ pc' = IF r = "ok" THEN "m2_show" ELSE "m2_finally"
       /\ printed' = IF r = "fail" THEN printed \cup {"stream-end"} ELSE printed
  /\ UNCHANGED <<envVars, quitHeld, menu, probeVars, openHandles, selectVars,
                 streamOpens, pipelineStarted, everShown, closeVars>>

\* cv2.imshow('Normal Webcam', frame)
M2Show ==
  /\ pc = "m2_show"
  /\ \E raised \in BOOLEAN :
       /\ exc' = raised
       /\ displayed' = ~raised
       /\ everShown' = (everShown \/ ~raised)
       /\ pc' = IF raised THEN "m2_finally" ELSE "m2_waitkey"
  /\ UNCHANGED <<envVars, quitHeld, menu, probeVars, openHandles, selectVars,
                 streamOpens, pipelineStarted, acq, everRead, closeVars, printed>>

\* key = cv2.waitKey(1); if key & 0xFF == ord('q') or key == 27: break
M2WaitKey ==
  /\ pc = "m2_waitkey"
  /\ \/ \E key \in PolledKeys :
          /\ pc' = IF IsQuitKey(key) THEN "m2_finally" ELSE "m2_read"
          /\ exc' = FALSE
     \/ /\ pc' = "m2_finally"
        /\ exc' = TRUE
  /\ UNCHANGED <<envVars, quitHeld, menu, probeVars, openHandles, selectVars,
                 streamOpens, pipelineStarted, frameVars, closeVars, printed>>

\* finally: cap.release(); cv2.destroyAllWindows()
M2Finally ==
  /\ pc = "m2_finally"
  /\ openHandles' = openHandles \ {<<"cap", 0>>}
  /\ releases' = releases + 1
  /\ destroys' = destroys + 1
  /\ pc' = IF exc THEN "raised" ELSE "done"
  /\ UNCHANGED <<envVars, quitHeld, menu, probeVars, selectVars, streamOpens,
                 pipelineStarted, frameVars, exc, printed>>

\* --------------------------------------------------------- specification

Next ==
  \/ HoldQuit
  \/ ProbeAny
  \/ ProbeAnyRecord
  \/ ProbeV4l
  \/ ProbeV4lRecord
  \/ SelectNone
  \/ SelectSole
  \/ SelectPrompt
  \/ SelectPromptAborted
  \/ StartStream
  \/ WcRead
  \/ WcShow
  \/ WcWaitKey
  \/ WcFinally
  \/ Main
  \/ RsStart
  \/ RsWait
  \/ RsValidate
  \/ RsShow
  \/ RsWaitKey
  \/ RsFinally
  \/ RsStop
  \/ M2Open
  \/ M2Read
  \/ M2Show
  \/ M2WaitKey
  \/ M2Finally

Spec == Init /\ [][Next]_vars

\* the program's own steps: everything but the user's HoldQuit
ProgramStep == Next /\ ~HoldQuit

\* one thread that always runs: every call returns or raises, so the program
\* takes its next step whenever it has one
FairSpec == Spec /\ WF_vars(ProgramStep)

\* ------------------------------------------------------------ vocabulary

\* the function has been left, by return or by a propagating exception
Terminated == pc \in {"done", "raised"}

\* the indices that open under at least one backend
Found == {k \in Indices : canAny[k] \/ canV4l[k]}

\* positions of the probing loop of webcam-test.py
ProbingPcs == {"probe_any", "probe_any_ok", "probe_v4l", "probe_v4l_ok"}

\* the stream session's open call was made and reported success
OpenSucceeded == streamOpens # <<>> /\ "device-unavailable" \notin printed

\* the stream session's open call was made and reported failure
OpenFailed == streamOpens # <<>> /\ "device-unavailable" \in printed

\* the depth+color flow / the webcam flows
InRealsense == script = RS /\ menu = "1"
InWebcam == script = WT \/ (script = RS /\ menu = "2")

Ascending(seq) == \A a, b \in 1..Len(seq) : a < b => seq[a] < seq[b]

\* ---------------------------------------------------------------- claims

\* C1 (as claimed): in both flows, once the open succeeded, every way of
\* leaving the loop -- key press, stream end, exception -- has released the
\* device and the display resources exactly once when the function is left.
C1_ReleasedOnEveryExit ==
  /\ releases <= 1 /\ destroys <= 1
  /\ (OpenSucceeded /\ Terminated) => (releases = 1 /\ destroys = 1)

\* C2 (as claimed): when the open call reports failure, device-unavailable is
\* reported, there is no retry, no frame is acquired or displayed, and the
\* release of the device and of the display resources has run exactly once
\* when the function is left.
C2_OpenFailureReleasesOnce ==
  (OpenFailed /\ Terminated) =>
     /\ Len(streamOpens) = 1 /\ ~everRead /\ ~everShown
     /\ releases = 1 /\ destroys = 1

\* C2 (amended): when the open call reports failure, device-unavailable is
\* reported, there is no retry, no frame is acquired or displayed, and the
\* function returns at once: no release call runs (zero times, not once), and
\* no device is left open.
C2_OpenFailureReturnsWithoutRelease ==
  /\ OpenFailed =>
       /\ pc = "done" /\ ~exc
       /\ Len(streamOpens) = 1 /\ ~everRead /\ ~everShown
       /\ releases = 0 /\ destroys = 0
       /\ openHandles = {} /\ ~pipelineStarted
  /\ (streamOpens # <<>> /\ pc = "done" /\ ~everRead) => OpenFailed

C2_Witness ==
  /\ OpenFailed /\ pc = "done" /\ script = WT /\ Len(available_indices) >= 2

\* C3: when the probing loop of webcam-test.py has ended, available_indices
\* holds exactly the indices that opened under at least one backend, each once
\* and in ascending order; CAP_V4L2 is tried for an index only if CAP_ANY
\* failed for it; every probe handle is released before the next index is
\* probed and before selection starts.
C3_ProbeResult ==
  script = WT =>
     /\ v4lTried \subseteq {k \in Indices : ~canAny[k]}
     /\ (pc = "probe_any" => openHandles = {})
     /\ (pc \notin ProbingPcs =>
           /\ SetOf(available_indices) = Found
           /\ Len(available_indices) = Cardinality(Found)
           /\ Ascending(available_indices)
           /\ v4lTried = {k \in Indices : ~canAny[k]})
     /\ (pc = "select" => openHandles = {})

C3_Witness ==
  /\ script = WT /\ pc = "select"
  /\ Len(available_indices) >= 3
  /\ \E k \in Found : ~canAny[k]
  /\ \E k \in Found : canAny[k] /\ canV4l[k]
  /\ Found # Indices

\* C4: when no index 0..4 opened under either backend, the user is never
\* prompted, no device is opened for streaming, no frame is read or displayed,
\* and the run ends with the no-device-found message.
C4_NoDeviceFound ==
  (script = WT /\ Found = {}) =>
     /\ ~prompted /\ choice_str = NoInput
     /\ streamOpens = <<>> /\ openHandles = {}
     /\ ~everRead /\ ~everShown
     /\ pc \in ProbingPcs \cup {"select", "done"}
     /\ (pc = "done" => printed = {"no-device-found"})

C4_Witness ==
  script = WT /\ Found = {} /\ pc = "done" /\ i = NumIndices

\* C5: with two or more successful indices and user input s: if s parses as an
\* integer that is a member of the discovered set, the streaming open is made
\* on exactly index s; otherwise invalid-selection is reported and no device is
\* opened for streaming (no retry, no default index).
C5_Selection ==
  (script = WT /\ Cardinality(Found) >= 2 /\ choice_str # NoInput) =>
     LET n == PyInt(choice_str) IN
     IF n.ok /\ n.val \in Found
     THEN /\ found_cam_index = n.val
          /\ "invalid-selection" \notin printed
          /\ (pc = "start_stream" \/ streamOpens = <<n.val>>)
          /\ openHandles \subseteq {<<"cap", n.val>>}
     ELSE /\ "invalid-selection" \in printed
          /\ pc = "done"
          /\ found_cam_index = -1
          /\ streamOpens = <<>> /\ openHandles = {}
          /\ ~everRead

C5_Witness ==
  /\ script = WT /\ Found = {0, 3}
  /\ choice_str = <<" ", "3">>
  /\ openHandles = {<<"cap", 3>>}
  /\ everShown

C5_WitnessInvalid ==
  /\ script = WT /\ Found = {0, 3}
  /\ choice_str = <<"1">>
  /\ pc = "done"

\* C6: with exactly one successful index i, no selection input is requested
\* and the streaming open is made on exactly index i.
C6_SoleIndex ==
  (script = WT /\ Cardinality(Found) = 1) =>
     /\ ~prompted /\ choice_str = NoInput
     /\ "invalid-selection" \notin printed
     /\ (pc \notin ProbingPcs \cup {"select"} =>
           /\ {found_cam_index} = Found
           /\ (pc = "start_stream" \/ streamOpens = <<found_cam_index>>)
           /\ openHandles \subseteq {<<"cap", found_cam_index>>})

C6_Witness ==
  /\ script = WT /\ Found = {3}
  /\ openHandles = {<<"cap", 3>>}
  /\ everShown

\* C7 (as claimed): in realsense-camera-test.py, entry mode "2" probes for
\* devices and, when more than one device is found, prompts the user for an
\* index and streams from the validated chosen index.
C7_Mode2ProbesAndPrompts ==
  (script = RS /\ menu = "2" /\ openHandles # {} /\ Cardinality(Found) >= 2) =>
     /\ SetOf(available_indices) = Found
     /\ prompted
     /\ found_cam_index \in Found
     /\ streamOpens = <<found_cam_index>>

\* C8: in every state of a webcam-test.py run at most one device handle is
\* open; no handle is open when an index is about to be probed, nor when the
\* streaming handle is about to be opened.
C8_AtMostOneHandle ==
  script = WT =>
     /\ Cardinality(openHandles) <= 1
     /\ (pc \in {"probe_any", "probe_v4l", "select", "start_stream"} =>
           openHandles = {})

C8_Witness ==
  /\ script = WT
  /\ openHandles = {<<"cap", 3>>}
  /\ available_indices = <<0, 1, 3>>
  /\ ~canAny[1]

\* C9 (as claimed): a per-frame acquisition failure never displays anything
\* for that iteration; in the depth+color flow a failed or timed-out
\* acquisition, or a pair with a missing member, is skipped with no error
\* raised and the session stays in Streaming; in the webcam flow a failed read
\* ends the loop and the session goes to Closing.
C9_FailureSkippedOrStreamEnd ==
  /\ (acq # "ok" => ~displayed)
  /\ (InRealsense /\ acq \in {"missing", "raised"}) =>
        (~exc /\ pc \in {"rs_validate", "rs_wait"})
  /\ (InWebcam /\ acq = "fail") =>
        /\ pc \in {"wc_finally", "m2_finally", "done"}
        /\ (pc = "done" => releases = 1 /\ destroys = 1)

\* C9 (amended): a per-frame acquisition failure never displays anything for
\* that iteration; in the depth+color flow a pair with a missing depth or
\* color member is skipped with no error raised and the session stays in
\* Streaming, whereas a failed or timed-out acquisition (wait_for_frames
\* raises) is not skipped: the exception leaves the loop; in the webcam flow a
\* failed read ends the loop and the session goes to Closing.
C9_MissingSkippedRaiseLeaves ==
  /\ (acq # "ok" => ~displayed)
  /\ (InRealsense /\ acq = "missing") =>
        (~exc /\ pc \in {"rs_validate", "rs_wait"})
  /\ (InRealsense /\ acq = "raised") =>
        (exc /\ pc \in {"rs_finally", "raised"})
  /\ (InWebcam /\ acq = "fail") =>
        /\ ~exc
        /\ pc \in {"wc_finally", "m2_finally", "done"}
        /\ (pc = "done" => releases = 1 /\ destroys = 1)

C9_Witness ==
  /\ InRealsense /\ acq = "missing" /\ pc = "rs_wait" /\ everShown

C9_WitnessRaise ==
  /\ InRealsense /\ acq = "raised" /\ pc = "raised" /\ everShown

C9_WitnessWebcam ==
  /\ script = WT /\ acq = "fail" /\ pc = "done" /\ everShown

\* C10 (as claimed): in both flows, once every key poll returns a terminating
\* key, the session eventually leaves Streaming and reaches Closed (device and
\* display resources released), whatever the frame acquisitions return, an
\* unbounded run of pairs with a missing member included.  A run that an
\* exception ends counts here as having left Streaming: what is released on
\* that path is C1's subject.
C10_QuitAlwaysCloses ==
  (quitHeld /\ pc \in StreamingPcs) ~>
     (Terminated /\ (exc \/ (releases = 1 /\ destroys = 1)))
====
